---------------------------- MODULE Spec2Model ----------------------------
(***************************************************************************)
(* A model of the bmfont package: the tag parser and the descriptor        *)
(* builder (parse.go), the font loader (bitmapfont.go, descriptor.go) and  *)
(* the text layout loop shared by DrawText and MeasureText.                *)
(*                                                                         *)
(* A Go string is a sequence of one-character strings, so that the         *)
(* conversions of the code (strconv.Atoi, strconv.Unquote, strings.Split)  *)
(* are computed and not assumed.  A Go map is a function; a missing key is *)
(* a key outside its DOMAIN.                                               *)
(***************************************************************************)
EXTENDS Integers, Sequences, FiniteSets, TLC

VARIABLES
    mode,      \* which part of the package this behaviour exercises
    p,         \* the tagsParser: errors, scanner, pos, tok, lit
    tags,      \* parse: the tags emitted so far
    tagName,   \* parse: the name of the tag being read
    attrs,     \* parse: the attributes of the tag being read
    pc,        \* parse: position in the two loops
    ctl,       \* parseControlData: the returned *ControlData (Nil when absent)
    perr,      \* parseControlData: the returned error (Nil when absent)
    input,     \* the document, the files or the text the call is given
    ld,        \* the loader: the call in progress, its files and its results
    font,      \* the BitmapFont the layout loop reads
    dt         \* drawText: text, start position, cursor, prev, the sink's calls

vars == <<mode, input, p, tags, tagName, attrs, pc, ctl, perr, ld, font, dt>>

parseVars == <<p, tags, tagName, attrs, pc, ctl, perr>>

\* The nil pointer, and the nil error.
Nil == [kind |-> "nil"]

EmptyMap == [k \in {} |-> <<>>]

\* The one element of a singleton set.  A step of a loop is written
\* The({loop(x) : x \in {step}}), which computes the step once before the
\* loop goes on.
The(S) == CHOOSE y \in S : TRUE

MapGet(m, k, zero) == IF k \in DOMAIN m THEN m[k] ELSE zero

MapPut(m, k, v) == [x \in DOMAIN m \cup {k} |-> IF x = k THEN v ELSE m[x]]

(***************************************************************************)
(* The string literals of parse.go.                                        *)
(***************************************************************************)
s_info == <<"i", "n", "f", "o">>
s_common == <<"c", "o", "m", "m", "o", "n">>
s_page == <<"p", "a", "g", "e">>
s_char == <<"c", "h", "a", "r">>
s_kerning == <<"k", "e", "r", "n", "i", "n", "g">>
s_face == <<"f", "a", "c", "e">>
s_size == <<"s", "i", "z", "e">>
s_bold == <<"b", "o", "l", "d">>
s_italic == <<"i", "t", "a", "l", "i", "c">>
s_charset == <<"c", "h", "a", "r", "s", "e", "t">>
s_unicode == <<"u", "n", "i", "c", "o", "d", "e">>
s_stretchH == <<"s", "t", "r", "e", "t", "c", "h", "H">>
s_smooth == <<"s", "m", "o", "o", "t", "h">>
s_aa == <<"a", "a">>
s_padding == <<"p", "a", "d", "d", "i", "n", "g">>
s_spacing == <<"s", "p", "a", "c", "i", "n", "g">>
s_outline == <<"o", "u", "t", "l", "i", "n", "e">>
s_lineHeight == <<"l", "i", "n", "e", "H", "e", "i", "g", "h", "t">>
s_base == <<"b", "a", "s", "e">>
s_scaleW == <<"s", "c", "a", "l", "e", "W">>
s_scaleH == <<"s", "c", "a", "l", "e", "H">>
s_packed == <<"p", "a", "c", "k", "e", "d">>
s_alphaChnl == <<"a", "l", "p", "h", "a", "C", "h", "n", "l">>
s_redChnl == <<"r", "e", "d", "C", "h", "n", "l">>
s_greenChnl == <<"g", "r", "e", "e", "n", "C", "h", "n", "l">>
s_blueChnl == <<"b", "l", "u", "e", "C", "h", "n", "l">>
s_id == <<"i", "d">>
s_file == <<"f", "i", "l", "e">>
s_x == <<"x">>
s_y == <<"y">>
s_width == <<"w", "i", "d", "t", "h">>
s_height == <<"h", "e", "i", "g", "h", "t">>
s_xoffset == <<"x", "o", "f", "f", "s", "e", "t">>
s_yoffset == <<"y", "o", "f", "f", "s", "e", "t">>
s_xadvance == <<"x", "a", "d", "v", "a", "n", "c", "e">>
s_first == <<"f", "i", "r", "s", "t">>
s_second == <<"s", "e", "c", "o", "n", "d">>
s_amount == <<"a", "m", "o", "u", "n", "t">>

(***************************************************************************)
(* strconv.Atoi, strconv.Unquote, strings.Split and strings.TrimSpace as   *)
(* parse.go uses them.                                                     *)
(***************************************************************************)
Digits == <<"0", "1", "2", "3", "4", "5", "6", "7", "8", "9">>

IsDigit(c) == \E d \in 1..10 : Digits[d] = c

DigitVal(c) == (CHOOSE d \in 1..10 : Digits[d] = c) - 1

RECURSIVE DigitsVal(_, _)
DigitsVal(s, acc) ==
    IF s = <<>> THEN acc ELSE DigitsVal(Tail(s), acc * 10 + DigitVal(Head(s)))

\* strconv.Atoi with its error dropped, as intAttr calls it: base 10, one
\* optional sign, at least one digit, nothing else; 0 on any syntax error.
\* (The texts of the model stay far below the range where Atoi saturates.)
Atoi(s) ==
    LET signed == s # <<>> /\ Head(s) \in {"+", "-"}
        body == IF signed THEN Tail(s) ELSE s
    IN  IF body = <<>> \/ \E i \in 1..Len(body) : ~IsDigit(body[i])
        THEN 0
        ELSE IF signed /\ Head(s) = "-"
             THEN 0 - DigitsVal(body, 0)
             ELSE DigitsVal(body, 0)

\* The escapes of a double-quoted Go string among the characters of the
\* model: \n, \t, \\ and \" are valid, a backslash before anything else is
\* an error, and so are a bare quote and a raw newline.
RECURSIVE UnquoteBody(_)
UnquoteBody(s) ==
    IF s = <<>> THEN [ok |-> TRUE, val |-> <<>>]
    ELSE IF Head(s) = "\\"
    THEN IF Len(s) < 2 \/ s[2] \notin {"n", "t", "\\", "\""}
         THEN [ok |-> FALSE, val |-> <<>>]
         ELSE LET rest == UnquoteBody(SubSeq(s, 3, Len(s)))
                  c == CASE s[2] = "n" -> "\n"
                         [] s[2] = "t" -> "\t"
                         [] OTHER -> s[2]
              IN  [ok |-> rest.ok, val |-> IF rest.ok THEN <<c>> \o rest.val ELSE <<>>]
    ELSE IF Head(s) \in {"\"", "\n"}
    THEN [ok |-> FALSE, val |-> <<>>]
    ELSE LET rest == UnquoteBody(Tail(s))
         IN  [ok |-> rest.ok, val |-> IF rest.ok THEN <<Head(s)>> \o rest.val ELSE <<>>]

\* strconv.Unquote of a token the scanner classed as a String: the literal
\* must open and close with the quote, and its body must unescape.
Unquote(s) ==
    IF Len(s) < 2 \/ s[1] # "\"" \/ s[Len(s)] # "\""
    THEN [ok |-> FALSE, val |-> <<>>]
    ELSE UnquoteBody(SubSeq(s, 2, Len(s) - 1))

\* strings.Split(s, ","): the pieces between the commas, at least one.
RECURSIVE Split(_, _)
Split(s, cur) ==
    IF s = <<>> THEN <<cur>>
    ELSE IF Head(s) = ","
    THEN <<cur>> \o Split(Tail(s), <<>>)
    ELSE Split(Tail(s), Append(cur, Head(s)))

IsSpace(c) == c \in {" ", "\t", "\n", "\r"}

RECURSIVE TrimLeft(_)
TrimLeft(s) == IF s # <<>> /\ IsSpace(Head(s)) THEN TrimLeft(Tail(s)) ELSE s

RECURSIVE TrimRight(_)
TrimRight(s) ==
    IF s # <<>> /\ IsSpace(s[Len(s)]) THEN TrimRight(SubSeq(s, 1, Len(s) - 1)) ELSE s

TrimSpace(s) == TrimRight(TrimLeft(s))

(***************************************************************************)
(* text/scanner as parse configures it (parse.go 133-136): the newline is  *)
(* a token, scan errors are dropped, and a malformed string literal is     *)
(* still a String token.  The source is the token sequence of a document,  *)
(* each token with the position of its first character; q marks a String   *)
(* token that is directly followed by one more quote character.            *)
(***************************************************************************)
TokenClasses == {"EOF", "Ident", "Int", "Float", "Char", "String"}

\* scanner.TokenString: the class name, or the quoted character.
TokenString(tok) == [text |-> tok, quoted |-> tok \notin TokenClasses]

RECURSIVE LineEnd(_, _)
\* The index of the first newline token at or after off, or Len(src) + 1.
LineEnd(src, i) ==
    IF i > Len(src) \/ src[i].tok = "\n" THEN i ELSE LineEnd(src, i + 1)

RECURSIVE RestOfLine(_, _, _)
\* The text of the tokens i..j-1, as it stands in the document.
RestOfLine(src, i, j) ==
    IF i >= j THEN <<>>
    ELSE (IF src[i].pos.col > 1 THEN <<" ">> ELSE <<>>) \o src[i].lit
         \o RestOfLine(src, i + 1, j)

EndPos(src) ==
    IF src = <<>> THEN [line |-> 1, col |-> 1]
    ELSE LET last == src[Len(src)]
         IN  IF last.tok = "\n"
             THEN [line |-> last.pos.line + 1, col |-> 1]
             ELSE [line |-> last.pos.line, col |-> last.pos.col + Len(last.lit)]

\* scanner.Init
ScannerInit(src) == [src |-> src, off |-> 1, pendq |-> FALSE]

\* scanner.Scan with Position and TokenText.  A quote character that was
\* left unread opens a string literal that the end of the line terminates.
Scan(s) ==
    IF s.pendq
    THEN LET prev == s.src[s.off - 1]
             e == LineEnd(s.src, s.off)
         IN  [tok |-> "String",
              lit |-> <<"\"">> \o RestOfLine(s.src, s.off, e),
              pos |-> [line |-> prev.pos.line, col |-> prev.pos.col + Len(prev.lit)],
              scanner |-> [s EXCEPT !.off = e, !.pendq = FALSE]]
    ELSE IF s.off > Len(s.src)
    THEN [tok |-> "EOF", lit |-> <<>>, pos |-> EndPos(s.src), scanner |-> s]
    ELSE LET t == s.src[s.off]
         IN  [tok |-> t.tok, lit |-> t.lit, pos |-> t.pos,
              scanner |-> [s EXCEPT !.off = s.off + 1, !.pendq = t.q]]

\* scanner.Peek() == '"'
PeekIsQuote(s) == s.pendq

\* scanner.Next(), called when the next character is that quote
ScannerNext(s) == [s EXCEPT !.pendq = FALSE]

(***************************************************************************)
(* tagsParser (parse.go 118-206).                                          *)
(***************************************************************************)
newError(pos, msg, found) == [pos |-> pos, expected |-> msg, found |-> found]

error(q, err) == [q EXCEPT !.errors = Append(q.errors, err)]

errorExpected(q, msg) == error(q, newError(q.pos, msg, TokenString(q.tok)))

next(q) ==
    The({[q EXCEPT !.tok = t.tok, !.pos = t.pos, !.lit = t.lit, !.scanner = t.scanner] :
            t \in {Scan(q.scanner)}})

\* expect as it would be if it kept a token it did not expect.
expectKeepsToken(q, tok, msg) ==
    IF q.tok # tok THEN errorExpected(q, msg) ELSE next(q)

expect(q, tok, msg) ==
    IF q.tok # tok THEN next(errorExpected(q, msg)) ELSE next(q)

RECURSIVE parseIntList(_, _)
\* The parser after the list, and the concatenated literals of its tokens.
parseIntList(q, sb) ==
    IF q.tok \in {"Int", ",", "-"}
    THEN The({parseIntList(x, y) : x \in {next(q)}, y \in {sb \o q.lit}})
    ELSE [p |-> q, value |-> sb]

\* The zero tagsParser, its scanner initialised on the document, after the
\* first p.next() (parse.go 133-137).
parseStart(src) ==
    next([errors |-> <<>>, scanner |-> ScannerInit(src),
          pos |-> [line |-> 0, col |-> 0], tok |-> "EOF", lit |-> <<>>])

\* The head of one pass of the tag loop (parse.go 141-143).
tagBegin(q) ==
    [p |-> expect(q, "Ident", "tag name"), tagName |-> q.lit, attrs |-> EmptyMap]

\* One pass of the attribute loop (parse.go 145-169).
attrPass(q, as) ==
    LET attrName == q.lit
        q1 == expect(q, "Ident", "attribute name")
    IN  The({
        CASE q2.tok = "String" ->
                LET u == Unquote(q2.lit)
                IN  IF ~u.ok
                    THEN \* end this line, rest is garbage
                         [p |-> [q2 EXCEPT !.tok = "\n"], attrs |-> as]
                    ELSE IF PeekIsQuote(q2.scanner)
                    THEN [p |-> next([q2 EXCEPT !.scanner = ScannerNext(q2.scanner)]),
                          attrs |-> MapPut(as, attrName, u.val \o <<"\"">>)]
                    ELSE [p |-> next(q2), attrs |-> MapPut(as, attrName, u.val)]
          [] q2.tok \in {"Int", "-"} ->
                LET r == parseIntList(q2, <<>>)
                IN  [p |-> r.p, attrs |-> MapPut(as, attrName, r.value)]
          [] OTHER ->
                [p |-> errorExpected(q2, "string or integer attribute value"),
                 attrs |-> MapPut(as, attrName, <<>>)]
        : q2 \in {expect(q1, "=", "\"=\"")}})

attrLoopDone(q) == q.tok = "\n" \/ q.tok = "EOF"

\* The tail of one pass of the tag loop (parse.go 171-175).
tagEnd(q, ts, name, as) ==
    [p |-> next(q), tags |-> Append(ts, [name |-> name, attrs |-> as])]

RECURSIVE attrLoop(_)
\* The attribute loop from the state st = [p, attrs] to its end.
attrLoop(st) ==
    IF attrLoopDone(st.p) THEN st
    ELSE The({attrLoop(x) : x \in {attrPass(st.p, st.attrs)}})

\* One pass of the tag loop from the state st = [p, tags].
tagPass(st) ==
    The({The({tagEnd(a.p, st.tags, b.tagName, a.attrs) :
                a \in {attrLoop([p |-> b.p, attrs |-> b.attrs])}}) :
            b \in {tagBegin(st.p)}})

RECURSIVE tagLoop(_)
\* The tag loop from the state st = [p, tags] to its end.
tagLoop(st) ==
    IF st.p.tok = "EOF" THEN [tags |-> st.tags, errors |-> st.p.errors]
    ELSE The({tagLoop(x) : x \in {tagPass(st)}})

\* errorList.Err
Err(list) == IF Len(list) = 0 THEN Nil ELSE [kind |-> "errorList", list |-> list]

\* tagsParser.parse, run to its return: the tags and errors.Err().
parse(src) ==
    The({[tags |-> r.tags, err |-> Err(r.errors)] :
            r \in {tagLoop([p |-> parseStart(src), tags |-> <<>>])}})

(***************************************************************************)
(* The tag accessors and the descriptor builder (parse.go 31-116,          *)
(* 213-237).                                                               *)
(***************************************************************************)
stringAttr(t, name) == MapGet(t.attrs, name, <<>>)

intAttr(t, name) == Atoi(stringAttr(t, name))

boolAttr(t, name) == intAttr(t, name) # 0

\* n values, zero where the list has no part; parts beyond n are dropped.
intListAttr(t, name, n) ==
    LET parts == Split(stringAttr(t, name), <<>>)
    IN  [i \in 1..n |-> IF i <= Len(parts) THEN Atoi(TrimSpace(parts[i])) ELSE 0]

paddingFrom(values) ==
    [Up |-> values[1], Right |-> values[2], Down |-> values[3], Left |-> values[4]]

spacingFrom(values) == [Horizontal |-> values[1], Vertical |-> values[2]]

\* rune(n): the code-points of the model lie inside int32, where the
\* conversion changes nothing.
ToRune(n) == n

ZeroInfo ==
    [Face |-> <<>>, Size |-> 0, Bold |-> FALSE, Italic |-> FALSE, Charset |-> <<>>,
     Unicode |-> FALSE, StretchH |-> 0, Smooth |-> FALSE, AA |-> 0,
     Padding |-> [Up |-> 0, Right |-> 0, Down |-> 0, Left |-> 0],
     Spacing |-> [Horizontal |-> 0, Vertical |-> 0], Outline |-> 0]

ZeroCommon ==
    [LineHeight |-> 0, Base |-> 0, ScaleW |-> 0, ScaleH |-> 0, Packed |-> FALSE,
     AlphaChannel |-> 0, RedChannel |-> 0, GreenChannel |-> 0, BlueChannel |-> 0]

\* The zero Char: the value a lookup of a missing code-point yields.
ZeroChar ==
    [ID |-> 0, X |-> 0, Y |-> 0, Width |-> 0, Height |-> 0, XOffset |-> 0,
     YOffset |-> 0, XAdvance |-> 0, Page |-> 0, Channel |-> 0]

infoFrom(t) ==
    [Face |-> stringAttr(t, s_face),
     Size |-> intAttr(t, s_size),
     Bold |-> boolAttr(t, s_bold),
     Italic |-> boolAttr(t, s_italic),
     Charset |-> stringAttr(t, s_charset),
     Unicode |-> boolAttr(t, s_unicode),
     StretchH |-> intAttr(t, s_stretchH),
     Smooth |-> boolAttr(t, s_smooth),
     AA |-> intAttr(t, s_aa),
     Padding |-> paddingFrom(intListAttr(t, s_padding, 4)),
     Spacing |-> spacingFrom(intListAttr(t, s_spacing, 2)),
     Outline |-> intAttr(t, s_outline)]

commonFrom(t) ==
    [LineHeight |-> intAttr(t, s_lineHeight),
     Base |-> intAttr(t, s_base),
     ScaleW |-> intAttr(t, s_scaleW),
     ScaleH |-> intAttr(t, s_scaleH),
     Packed |-> boolAttr(t, s_packed),
     AlphaChannel |-> intAttr(t, s_alphaChnl),
     RedChannel |-> intAttr(t, s_redChnl),
     GreenChannel |-> intAttr(t, s_greenChnl),
     BlueChannel |-> intAttr(t, s_blueChnl)]

pageFrom(t) == [ID |-> intAttr(t, s_id), File |-> stringAttr(t, s_file)]

\* The Char literal of parse.go 79-88 sets neither Page nor Channel: both
\* keep the zero value.
charFrom(t) ==
    [ID |-> ToRune(intAttr(t, s_id)),
     X |-> intAttr(t, s_x),
     Y |-> intAttr(t, s_y),
     Width |-> intAttr(t, s_width),
     Height |-> intAttr(t, s_height),
     XOffset |-> intAttr(t, s_xoffset),
     YOffset |-> intAttr(t, s_yoffset),
     XAdvance |-> intAttr(t, s_xadvance),
     Page |-> 0,
     Channel |-> 0]

pairFrom(t) ==
    [First |-> ToRune(intAttr(t, s_first)), Second |-> ToRune(intAttr(t, s_second))]

kerningFrom(t) == [Amount |-> intAttr(t, s_amount)]

\* One pass of the switch over the tags (parse.go 43-97).
applyTag(f, t) ==
    CASE t.name = s_info -> [f EXCEPT !.Info = infoFrom(t)]
      [] t.name = s_common -> [f EXCEPT !.Common = commonFrom(t)]
      [] t.name = s_page ->
            [f EXCEPT !.Pages = MapPut(f.Pages, pageFrom(t).ID, pageFrom(t))]
      [] t.name = s_char ->
            [f EXCEPT !.Chars = MapPut(f.Chars, charFrom(t).ID, charFrom(t))]
      [] t.name = s_kerning ->
            [f EXCEPT !.Kerning = MapPut(f.Kerning, pairFrom(t), kerningFrom(t))]
      [] OTHER -> f

RECURSIVE applyTags(_, _)
applyTags(f, ts) ==
    IF ts = <<>> THEN f
    ELSE The({applyTags(x, Tail(ts)) : x \in {applyTag(f, Head(ts))}})

EmptyControlData ==
    [Info |-> ZeroInfo, Common |-> ZeroCommon, Pages |-> EmptyMap,
     Chars |-> EmptyMap, Kerning |-> EmptyMap]

\* parseControlData after p.parse has returned (parse.go 34-99).
buildControlData(ts, err) ==
    IF err # Nil
    THEN [ctl |-> Nil, err |-> err]
    ELSE [ctl |-> applyTags(EmptyControlData, ts), err |-> Nil]

\* parseControlData, and the parseDescriptor that ReadDescriptor and
\* LoadDescriptor call.
parseControlData(src) ==
    The({buildControlData(r.tags, r.err) : r \in {parse(src)}})

(***************************************************************************)
(* Documents.  A document is a sequence of lines, a line a sequence of     *)
(* tokens; Layout gives each token the position the scanner reports for    *)
(* it when the tokens of a line stand one space apart.                     *)
(***************************************************************************)
Tok(tok, lit) == [tok |-> tok, lit |-> lit, q |-> FALSE]

RECURSIVE Itoa(_)
\* The decimal digits of a natural number.
Itoa(n) ==
    IF n < 10 THEN <<Digits[n + 1]>> ELSE Itoa(n \div 10) \o <<Digits[(n % 10) + 1]>>

\* An integer as the scanner splits it: a minus sign is a token of its own.
IntToks(n) ==
    IF n < 0 THEN <<Tok("-", <<"-">>), Tok("Int", Itoa(0 - n))>> ELSE <<Tok("Int", Itoa(n))>>

RECURSIVE Escape(_)
Escape(s) ==
    IF s = <<>> THEN <<>>
    ELSE (IF Head(s) \in {"\"", "\\"} THEN <<"\\", Head(s)>> ELSE <<Head(s)>>)
         \o Escape(Tail(s))

\* A string as a quoted literal of the format.
Quote(s) == <<"\"">> \o Escape(s) \o <<"\"">>

Ident(s) == Tok("Ident", s)

EqTok == Tok("=", <<"=">>)

CommaTok == Tok(",", <<",">>)

IntAttrToks(name, n) == <<Ident(name), EqTok>> \o IntToks(n)

BoolAttrToks(name, b) == IntAttrToks(name, IF b THEN 1 ELSE 0)

StrAttrToks(name, str) == <<Ident(name), EqTok, Tok("String", Quote(str))>>

RECURSIVE IntListToks(_)
IntListToks(ns) ==
    IF ns = <<>> THEN <<>>
    ELSE IntToks(Head(ns))
         \o (IF Len(ns) > 1 THEN <<CommaTok>> ELSE <<>>) \o IntListToks(Tail(ns))

ListAttrToks(name, ns) == <<Ident(name), EqTok>> \o IntListToks(ns)

RECURSIVE LayLine(_, _, _)
LayLine(toks, ln, col) ==
    IF toks = <<>> THEN <<>>
    ELSE LET t == Head(toks)
             w == Len(t.lit) + (IF t.q THEN 1 ELSE 0)
         IN  <<[tok |-> t.tok, lit |-> t.lit, q |-> t.q,
                pos |-> [line |-> ln, col |-> col]]>>
             \o LayLine(Tail(toks), ln, col + w + 1)

RECURSIVE LineWidth(_)
LineWidth(toks) ==
    IF toks = <<>> THEN 0
    ELSE Len(Head(toks).lit) + (IF Head(toks).q THEN 1 ELSE 0)
         + (IF Len(toks) > 1 THEN 1 ELSE 0) + LineWidth(Tail(toks))

NewlineTok(ln, col) ==
    [tok |-> "\n", lit |-> <<"\n">>, q |-> FALSE, pos |-> [line |-> ln, col |-> col]]

RECURSIVE Layout(_, _, _)
\* The tokens of the lines from line number ln on; the last line ends with a
\* newline when finalNL.
Layout(lines, ln, finalNL) ==
    IF lines = <<>> THEN <<>>
    ELSE LayLine(Head(lines), ln, 1)
         \o (IF Len(lines) > 1 \/ finalNL
             THEN <<NewlineTok(ln, LineWidth(Head(lines)) + 1)>> ELSE <<>>)
         \o Layout(Tail(lines), ln + 1, finalNL)

\* The lines the parser is run on: well-formed ones, and ones with a fault.
GoodLines == {"page", "char", "kerning", "quote", "list"}

MissingEqLines == {"noeq", "noeqEnd"}

BadStringLines == {"badString", "badStringEnd"}

LineNames == GoodLines \cup MissingEqLines \cup BadStringLines \cup {"badValue", "stray"}

PoolLine(n) ==
    CASE n = "page" ->      \* page id=1 file="a"
            <<Ident(s_page)>> \o IntAttrToks(s_id, 1) \o StrAttrToks(s_file, <<"a">>)
      [] n = "page0" ->     \* page id=0 file="b"
            <<Ident(s_page)>> \o IntAttrToks(s_id, 0) \o StrAttrToks(s_file, <<"b">>)
      [] n = "char" ->      \* char id=65 xoffset=-1 xadvance=10
            <<Ident(s_char)>> \o IntAttrToks(s_id, 65) \o IntAttrToks(s_xoffset, -1)
            \o IntAttrToks(s_xadvance, 10)
      [] n = "kerning" ->   \* kerning first=65 second=86 amount=-2
            <<Ident(s_kerning)>> \o IntAttrToks(s_first, 65)
            \o IntAttrToks(s_second, 86) \o IntAttrToks(s_amount, -2)
      [] n = "quote" ->     \* page id=2 file="""
            <<Ident(s_page)>> \o IntAttrToks(s_id, 2)
            \o <<Ident(s_file), EqTok, [tok |-> "String", lit |-> <<"\"", "\"">>, q |-> TRUE]>>
      [] n = "list" ->      \* info padding=1,2,3,4 spacing=5
            <<Ident(s_info)>> \o ListAttrToks(s_padding, <<1, 2, 3, 4>>)
            \o ListAttrToks(s_spacing, <<5>>)
      [] n = "noeq" ->      \* page id 3
            <<Ident(s_page), Ident(s_id)>> \o IntToks(3)
      [] n = "noeqEnd" ->   \* page id
            <<Ident(s_page), Ident(s_id)>>
      [] n = "badString" -> \* page file="\q" id=1
            <<Ident(s_page), Ident(s_file), EqTok,
              Tok("String", <<"\"", "\\", "q", "\"">>)>> \o IntAttrToks(s_id, 1)
      [] n = "badStringEnd" -> \* page id=1 file="a
            <<Ident(s_page)>> \o IntAttrToks(s_id, 1)
            \o <<Ident(s_file), EqTok, Tok("String", <<"\"", "a">>)>>
      [] n = "badValue" ->  \* page id=x
            <<Ident(s_page), Ident(s_id), EqTok, Ident(s_x)>>
      [] n = "stray" ->     \* 7 8
            IntToks(7) \o IntToks(8)

RECURSIVE PoolLines(_)
PoolLines(ns) == IF ns = <<>> THEN <<>> ELSE <<PoolLine(Head(ns))>> \o PoolLines(Tail(ns))

\* The longest document made of pool lines.
MaxLines == 2

LineSeqs == UNION {[1..n -> LineNames] : n \in 1..MaxLines}

PoolInputs ==
    {[kind |-> "lines", lines |-> ls, finalNL |-> nl, want |-> Nil] :
        ls \in LineSeqs, nl \in BOOLEAN}

(***************************************************************************)
(* Well-formed documents in the documented format: one info, one common,   *)
(* one page, two char and one kerning line, written from the values the    *)
(* descriptor is expected to hold.                                         *)
(***************************************************************************)
w_chnl == <<"c", "h", "n", "l">>

\* The largest page id of a well-formed document.
MaxPageId == 1

\* Well-formed documents differ in a shift of their numbers, 0..MaxShift.
MaxShift == 1

WantChar(id, pg, k) ==
    [ID |-> id, X |-> id - 60 + k, Y |-> 2 + k, Width |-> 9 + k, Height |-> 12,
     XOffset |-> 0 - k, YOffset |-> 3, XAdvance |-> 10 + k, Page |-> pg, Channel |-> 15]

WantDescriptor(pg, k) ==
    [Info |-> [Face |-> <<"A", "r">>, Size |-> 32 + k, Bold |-> k = 1, Italic |-> FALSE,
               Charset |-> <<>>, Unicode |-> TRUE, StretchH |-> 100, Smooth |-> TRUE,
               AA |-> 1,
               Padding |-> [Up |-> 1, Right |-> 2, Down |-> 3, Left |-> 4 + k],
               Spacing |-> [Horizontal |-> 5, Vertical |-> 6 + k], Outline |-> k],
     Common |-> [LineHeight |-> 20 + k, Base |-> 16, ScaleW |-> 256, ScaleH |-> 128,
                 Packed |-> FALSE, AlphaChannel |-> 1, RedChannel |-> 2,
                 GreenChannel |-> 3, BlueChannel |-> 4],
     Pages |-> [i \in {pg} |-> [ID |-> pg, File |-> <<"a", ".", "p">>]],
     Chars |-> [c \in {65, 86} |-> WantChar(c, pg, k)],
     Kerning |-> [pr \in {[First |-> 65, Second |-> 86]} |-> [Amount |-> 0 - 2 - k]]]

InfoLine(i) ==
    <<Ident(s_info)>> \o StrAttrToks(s_face, i.Face) \o IntAttrToks(s_size, i.Size)
    \o BoolAttrToks(s_bold, i.Bold) \o BoolAttrToks(s_italic, i.Italic)
    \o StrAttrToks(s_charset, i.Charset) \o BoolAttrToks(s_unicode, i.Unicode)
    \o IntAttrToks(s_stretchH, i.StretchH) \o BoolAttrToks(s_smooth, i.Smooth)
    \o IntAttrToks(s_aa, i.AA)
    \o ListAttrToks(s_padding,
                    <<i.Padding.Up, i.Padding.Right, i.Padding.Down, i.Padding.Left>>)
    \o ListAttrToks(s_spacing, <<i.Spacing.Horizontal, i.Spacing.Vertical>>)
    \o IntAttrToks(s_outline, i.Outline)

CommonLine(c) ==
    <<Ident(s_common)>> \o IntAttrToks(s_lineHeight, c.LineHeight)
    \o IntAttrToks(s_base, c.Base) \o IntAttrToks(s_scaleW, c.ScaleW)
    \o IntAttrToks(s_scaleH, c.ScaleH) \o BoolAttrToks(s_packed, c.Packed)
    \o IntAttrToks(s_alphaChnl, c.AlphaChannel) \o IntAttrToks(s_redChnl, c.RedChannel)
    \o IntAttrToks(s_greenChnl, c.GreenChannel) \o IntAttrToks(s_blueChnl, c.BlueChannel)

PageLine(pg) == <<Ident(s_page)>> \o IntAttrToks(s_id, pg.ID) \o StrAttrToks(s_file, pg.File)

CharLine(c) ==
    <<Ident(s_char)>> \o IntAttrToks(s_id, c.ID) \o IntAttrToks(s_x, c.X)
    \o IntAttrToks(s_y, c.Y) \o IntAttrToks(s_width, c.Width)
    \o IntAttrToks(s_height, c.Height) \o IntAttrToks(s_xoffset, c.XOffset)
    \o IntAttrToks(s_yoffset, c.YOffset) \o IntAttrToks(s_xadvance, c.XAdvance)
    \o IntAttrToks(s_page, c.Page) \o IntAttrToks(w_chnl, c.Channel)

KerningLine(pr, k) ==
    <<Ident(s_kerning)>> \o IntAttrToks(s_first, pr.First)
    \o IntAttrToks(s_second, pr.Second) \o IntAttrToks(s_amount, k.Amount)

DescriptorLines(w) ==
    LET pg == CHOOSE i \in DOMAIN w.Pages : TRUE
        pr == CHOOSE x \in DOMAIN w.Kerning : TRUE
    IN  <<InfoLine(w.Info), CommonLine(w.Common), PageLine(w.Pages[pg]),
          CharLine(w.Chars[65]), CharLine(w.Chars[86]), KerningLine(pr, w.Kerning[pr])>>

DescriptorInputs ==
    {[kind |-> "descriptor", lines |-> <<>>, finalNL |-> nl, want |-> WantDescriptor(pg, k)] :
        pg \in 0..MaxPageId, k \in 0..MaxShift, nl \in BOOLEAN}

ParseInputs == PoolInputs \cup DescriptorInputs

\* The token sequence the scanner reads for an input.
SourceOf(in) ==
    IF in.kind = "descriptor"
    THEN Layout(DescriptorLines(in.want), 1, in.finalNL)
    ELSE Layout(PoolLines(in.lines), 1, in.finalNL)

(***************************************************************************)
(* parseControlData on a document, one action for each pass of the loops   *)
(* of tagsParser.parse.                                                    *)
(***************************************************************************)
ZeroParser(src) ==
    [errors |-> <<>>, scanner |-> ScannerInit(src), pos |-> [line |-> 0, col |-> 0],
     tok |-> "EOF", lit |-> <<>>]

ParseIdle ==
    /\ p = ZeroParser(<<>>)
    /\ tags = <<>>
    /\ tagName = <<>>
    /\ attrs = EmptyMap
    /\ pc = "idle"
    /\ ctl = Nil
    /\ perr = Nil

LoadIdle == ld = Nil

DrawIdle == font = Nil /\ dt = Nil

InitParse ==
    /\ mode = "parse"
    /\ input \in ParseInputs
    /\ p = ZeroParser(SourceOf(input))
    /\ tags = <<>>
    /\ tagName = <<>>
    /\ attrs = EmptyMap
    /\ pc = "start"
    /\ ctl = Nil
    /\ perr = Nil
    /\ LoadIdle
    /\ DrawIdle

\* parse.go 133-139
ParseStart ==
    /\ pc = "start"
    /\ p' = parseStart(p.scanner.src)
    /\ tags' = <<>>
    /\ pc' = "tag"
    /\ UNCHANGED <<mode, input, tagName, attrs, ctl, perr, ld, font, dt>>

\* parse.go 140-143
TagBegin ==
    /\ pc = "tag"
    /\ p.tok # "EOF"
    /\ LET b == tagBegin(p)
       IN  p' = b.p /\ tagName' = b.tagName /\ attrs' = b.attrs
    /\ pc' = "attr"
    /\ UNCHANGED <<mode, input, tags, ctl, perr, ld, font, dt>>

\* parse.go 144-170
AttrPass ==
    /\ pc = "attr"
    /\ ~attrLoopDone(p)
    /\ LET r == attrPass(p, attrs)
       IN  p' = r.p /\ attrs' = r.attrs
    /\ UNCHANGED <<mode, input, tags, tagName, pc, ctl, perr, ld, font, dt>>

\* parse.go 171-175
TagEnd ==
    /\ pc = "attr"
    /\ attrLoopDone(p)
    /\ LET e == tagEnd(p, tags, tagName, attrs)
       IN  p' = e.p /\ tags' = e.tags
    /\ pc' = "tag"
    /\ UNCHANGED <<mode, input, tagName, attrs, ctl, perr, ld, font, dt>>

\* parse.go 177, then parseControlData from line 34 on
ParseReturn ==
    /\ pc = "tag"
    /\ p.tok = "EOF"
    /\ LET r == buildControlData(tags, Err(p.errors))
       IN  ctl' = r.ctl /\ perr' = r.err
    /\ pc' = "done"
    /\ UNCHANGED <<mode, input, p, tags, tagName, attrs, ld, font, dt>>

NextParse == ParseStart \/ TagBegin \/ AttrPass \/ TagEnd \/ ParseReturn

SpecParse == InitParse /\ [][NextParse]_vars

\* parseControlData runs without waiting for anything: a step that can be
\* taken is taken.
SpecParseLive == InitParse /\ [][NextParse]_vars /\ WF_vars(NextParse)

(***************************************************************************)
(* Properties of the parser and the builder.                               *)
(***************************************************************************)
\* The tag a well-formed line yields when it is parsed on its own.
GoodTag(n) == parse(Layout(<<PoolLine(n)>>, 1, TRUE)).tags[1]

\* Line i is the only line of the document that is not well-formed.
OnlyFaultyLine(i) ==
    /\ input.kind = "lines"
    /\ i \in 1..Len(input.lines)
    /\ \A j \in 1..Len(input.lines) : j # i => input.lines[j] \in GoodLines

ErrorsOnLine(i) == {k \in 1..Len(p.errors) : p.errors[k].pos.line = i}

\* The first token of line i that stands where "=" is expected.
FoundAfterName(i) ==
    LET src == p.scanner.src
        k == CHOOSE k \in 1..Len(src) : src[k].pos = [line |-> i, col |-> 1]
    IN  src[k + 2]

\* C2: a line in which an attribute name is not followed by "=" (page id 3)
\* records exactly one syntax error, which names the expected "=" and
\* carries the position of the token found in its place, and the line after
\* it is parsed as a normal tag without further errors.
C2_MissingEqOneError ==
    pc = "done" =>
        \A i \in 1..Len(input.lines) :
            (OnlyFaultyLine(i) /\ input.lines[i] \in MissingEqLines) =>
                /\ Cardinality(ErrorsOnLine(i)) = 1
                /\ \A k \in ErrorsOnLine(i) :
                        /\ p.errors[k].expected = "\"=\""
                        /\ p.errors[k].pos = FoundAfterName(i).pos
                /\ Len(p.errors) = 1
                /\ i < Len(input.lines) =>
                        /\ Len(tags) = Len(input.lines)
                        /\ tags[i + 1] = GoodTag(input.lines[i + 1])

\* The tag a line with a malformed string is to yield: its name and the
\* attributes read before the malformed value.
PartialTag(n) ==
    CASE n = "badString" -> [name |-> s_page, attrs |-> EmptyMap]
      [] n = "badStringEnd" -> [name |-> s_page, attrs |-> MapPut(EmptyMap, s_id, <<"1">>)]

\* C3: a quoted value that fails to unescape is reported as a syntax error,
\* the rest of its line is discarded, the line's tag is emitted with the
\* attributes read before the bad value, and the next tag starts with the
\* first token of the next line: every line yields exactly its own tag.
C3_BadStringAbandonsLine ==
    pc = "done" =>
        \A i \in 1..Len(input.lines) :
            (OnlyFaultyLine(i) /\ input.lines[i] \in BadStringLines) =>
                /\ ErrorsOnLine(i) # {}
                /\ \A k \in 1..Len(p.errors) : p.errors[k].pos.line = i
                /\ Len(tags) = Len(input.lines)
                /\ \A j \in 1..Len(input.lines) :
                        tags[j] = IF j = i THEN PartialTag(input.lines[i])
                                  ELSE GoodTag(input.lines[j])

\* The fields of a glyph that the char tag of the format gives.
CharEquals(c, w) ==
    /\ c.ID = w.ID /\ c.X = w.X /\ c.Y = w.Y
    /\ c.Width = w.Width /\ c.Height = w.Height
    /\ c.XOffset = w.XOffset /\ c.YOffset = w.YOffset
    /\ c.XAdvance = w.XAdvance
    /\ c.Page = w.Page

DescriptorEquals(d, w) ==
    /\ d.Info = w.Info
    /\ d.Common = w.Common
    /\ d.Pages = w.Pages
    /\ DOMAIN d.Chars = DOMAIN w.Chars
    /\ \A c \in DOMAIN w.Chars : CharEquals(d.Chars[c], w.Chars[c])
    /\ d.Kerning = w.Kerning

\* C10: parsing a well-formed document with one info, one common, one page,
\* two char and one kerning tag yields a descriptor whose every field equals
\* the literal value of the like-named attribute, the page of each char
\* included.
C10_FieldsEqualLiterals ==
    (pc = "done" /\ input.kind = "descriptor") =>
        /\ perr = Nil
        /\ ctl # Nil
        /\ DescriptorEquals(ctl, input.want)

\* What the builder does give: every field but the page of a char, which
\* stays 0 whatever the document says.
DescriptorButCharPage ==
    (pc = "done" /\ input.kind = "descriptor") =>
        /\ perr = Nil
        /\ ctl # Nil
        /\ DescriptorEquals(
              [ctl EXCEPT !.Chars = [c \in DOMAIN ctl.Chars |->
                    [ctl.Chars[c] EXCEPT
                        !.Page = IF c \in DOMAIN input.want.Chars
                                 THEN input.want.Chars[c].Page ELSE 0]]],
              input.want)
        /\ \A c \in DOMAIN ctl.Chars : ctl.Chars[c].Page = 0 /\ ctl.Chars[c].Channel = 0

(***************************************************************************)
(* The loader: ReadDescriptor, LoadDescriptor (descriptor.go 131-146),     *)
(* Read, SheetReaderFunc.read, Load and closeChecked (bitmapfont.go        *)
(* 23-68, 167-172).  What the files do (open, decode, close: succeed or    *)
(* fail) is the environment's choice at each step; io is the record of it. *)
(***************************************************************************)
closeChecked(cErr, err) == IF cErr # Nil /\ err = Nil THEN cErr ELSE err

\* The errors of the files: of the sheet of page i, and of the descriptor file.
OpenError(i) == [kind |-> "open", page |-> i]

DecodeError(i) == [kind |-> "decode", page |-> i]

CloseError(i) == [kind |-> "close", page |-> i]

DescriptorOpenError == [kind |-> "openDescriptor", page |-> 0]

DescriptorCloseError == [kind |-> "closeDescriptor", page |-> 0]

Image(file) == [kind |-> "image", file |-> file]

\* SheetReaderFunc.read for the sheet of page i; o says what the file does.
\* The deferred closeChecked runs on every path after a successful open.
read(i, file, o) ==
    IF ~o.open
    THEN [img |-> Nil, err |-> OpenError(i), io |-> <<[ev |-> "open", page |-> i, ok |-> FALSE]>>]
    ELSE LET sheet == IF o.decode THEN Image(file) ELSE Nil
             err == IF o.decode THEN Nil ELSE DecodeError(i)
             cErr == IF o.close THEN Nil ELSE CloseError(i)
         IN  [img |-> sheet,
              err |-> closeChecked(cErr, err),
              io |-> <<[ev |-> "open", page |-> i, ok |-> TRUE],
                       [ev |-> "decode", page |-> i, ok |-> o.decode],
                       [ev |-> "close", page |-> i, ok |-> o.close]>>]

\* readPass as it would be if a failing sheet were skipped and the loop
\* went on.
readPassSkipsFailure(l, i, o) ==
    LET r == read(i, l.desc.Pages[i].File, o)
    IN  IF r.err # Nil
        THEN [l EXCEPT !.io = l.io \o r.io, !.todo = l.todo \ {i}]
        ELSE [l EXCEPT !.io = l.io \o r.io, !.todo = l.todo \ {i},
                       !.PageSheets = MapPut(l.PageSheets, i, r.img)]

\* One pass of the loop of Read over desc.Pages (bitmapfont.go 48-54), for
\* the key i the range statement yields.
readPass(l, i, o) ==
    LET r == read(i, l.desc.Pages[i].File, o)
    IN  IF r.err # Nil
        THEN [l EXCEPT !.io = l.io \o r.io, !.todo = l.todo \ {i},
                       !.readF = Nil, !.readErr = r.err, !.pc = "readReturned"]
        ELSE [l EXCEPT !.io = l.io \o r.io, !.todo = l.todo \ {i},
                       !.PageSheets = MapPut(l.PageSheets, i, r.img)]

\* readBegin as it would be if the loop left out one page of the table.
readBeginDropsPage(l, src) ==
    LET d == parseControlData(src)
    IN  IF d.err # Nil
        THEN [l EXCEPT !.readF = Nil, !.readErr = d.err, !.pc = "readReturned"]
        ELSE [l EXCEPT !.desc = d.ctl, !.PageSheets = EmptyMap,
                       !.todo = DOMAIN d.ctl.Pages
                                \ {i \in DOMAIN d.ctl.Pages :
                                      \A j \in DOMAIN d.ctl.Pages : i <= j},
                       !.pc = "pages"]

\* Read up to its loop (bitmapfont.go 40-47).
readBegin(l, src) ==
    LET d == parseControlData(src)
    IN  IF d.err # Nil
        THEN [l EXCEPT !.readF = Nil, !.readErr = d.err, !.pc = "readReturned"]
        ELSE [l EXCEPT !.desc = d.ctl, !.PageSheets = EmptyMap,
                       !.todo = DOMAIN d.ctl.Pages, !.pc = "pages"]

\* Read after its loop (bitmapfont.go 55).
readEnd(l) ==
    [l EXCEPT !.readF = [Descriptor |-> l.desc, PageSheets |-> l.PageSheets],
              !.readErr = Nil, !.pc = "readReturned"]

\* The return of the call: Read hands its results over as they are; Load
\* returns them through the deferred closeChecked(file, &err).
loadReturn(l, closeOk) ==
    IF l.op = "Read"
    THEN [l EXCEPT !.f = l.readF, !.err = l.readErr, !.pc = "returned"]
    ELSE [l EXCEPT !.f = l.readF,
                   !.err = closeChecked(IF closeOk THEN Nil ELSE DescriptorCloseError,
                                        l.readErr),
                   !.file = "closed",
                   !.io = Append(l.io, [ev |-> "closeDescriptor", page |-> 0, ok |-> closeOk]),
                   !.pc = "returned"]

\* os.Open of the descriptor in Load and LoadDescriptor.
openDescriptor(l, ok) ==
    IF ok
    THEN [l EXCEPT !.file = "open", !.pc = "opened",
                   !.io = Append(l.io, [ev |-> "openDescriptor", page |-> 0, ok |-> TRUE])]
    ELSE [l EXCEPT !.f = Nil, !.err = DescriptorOpenError, !.pc = "returned",
                   !.io = Append(l.io, [ev |-> "openDescriptor", page |-> 0, ok |-> FALSE])]

\* ReadDescriptor, and LoadDescriptor from its parseDescriptor call on: the
\* parser's results, through the deferred closeChecked(f, &err) in the latter.
descriptorReturn(l, src, closeOk) ==
    LET d == parseControlData(src)
    IN  IF l.op = "ReadDescriptor"
        THEN [l EXCEPT !.f = d.ctl, !.err = d.err, !.pc = "returned"]
        ELSE [l EXCEPT !.f = d.ctl,
                       !.err = closeChecked(IF closeOk THEN Nil ELSE DescriptorCloseError,
                                            d.err),
                       !.file = "closed",
                       !.io = Append(l.io, [ev |-> "closeDescriptor", page |-> 0, ok |-> closeOk]),
                       !.pc = "returned"]

Ops == {"ReadDescriptor", "LoadDescriptor", "Read", "Load"}

LoadLineNames == {"page0", "page", "quote", "noeq"}

\* The longest descriptor document given to the loader.
MaxLoadLines == 3

LoadInputs ==
    {[kind |-> "load", op |-> op, lines |-> ls, finalNL |-> TRUE, want |-> Nil] :
        op \in Ops, ls \in UNION {[1..n -> LoadLineNames] : n \in 0..MaxLoadLines}}

FileOutcomes == [open : BOOLEAN, decode : BOOLEAN, close : BOOLEAN]

InitLoad ==
    /\ mode = "load"
    /\ input \in LoadInputs
    /\ ParseIdle
    /\ DrawIdle
    /\ ld = [op |-> input.op, pc |-> "call", file |-> "none", desc |-> Nil,
             PageSheets |-> EmptyMap, todo |-> {}, io |-> <<>>,
             readF |-> Nil, readErr |-> Nil, f |-> Nil, err |-> Nil]

\* bitmapfont.go 24-28, descriptor.go 132-136
OpenDescriptor ==
    /\ mode = "load" /\ ld.pc = "call" /\ ld.op \in {"Load", "LoadDescriptor"}
    /\ \E ok \in BOOLEAN : ld' = openDescriptor(ld, ok)
    /\ UNCHANGED <<mode, input, parseVars, font, dt>>

\* descriptor.go 137 and 145
DescriptorReturn ==
    /\ mode = "load"
    /\ \/ ld.pc = "call" /\ ld.op = "ReadDescriptor"
       \/ ld.pc = "opened" /\ ld.op = "LoadDescriptor"
    /\ \E closeOk \in BOOLEAN : ld' = descriptorReturn(ld, SourceOf(input), closeOk)
    /\ UNCHANGED <<mode, input, parseVars, font, dt>>

\* bitmapfont.go 40-47
ReadBegin ==
    /\ mode = "load"
    /\ \/ ld.pc = "call" /\ ld.op = "Read"
       \/ ld.pc = "opened" /\ ld.op = "Load"
    /\ ld' = readBegin(ld, SourceOf(input))
    /\ UNCHANGED <<mode, input, parseVars, font, dt>>

\* bitmapfont.go 48-54: the range over the map yields its keys in an order
\* the language leaves open.
ReadPass ==
    /\ mode = "load" /\ ld.pc = "pages"
    /\ \E i \in ld.todo, o \in FileOutcomes : ld' = readPass(ld, i, o)
    /\ UNCHANGED <<mode, input, parseVars, font, dt>>

\* bitmapfont.go 55
ReadEnd ==
    /\ mode = "load" /\ ld.pc = "pages" /\ ld.todo = {}
    /\ ld' = readEnd(ld)
    /\ UNCHANGED <<mode, input, parseVars, font, dt>>

\* bitmapfont.go 30 with the deferred call of line 28
LoadReturn ==
    /\ mode = "load" /\ ld.pc = "readReturned"
    /\ \E closeOk \in BOOLEAN : ld' = loadReturn(ld, closeOk)
    /\ UNCHANGED <<mode, input, parseVars, font, dt>>

NextLoad ==
    OpenDescriptor \/ DescriptorReturn \/ ReadBegin \/ ReadPass \/ ReadEnd \/ LoadReturn

SpecLoad == InitLoad /\ [][NextLoad]_vars

(***************************************************************************)
(* Properties of the loader.                                               *)
(***************************************************************************)
IsSheetEvent(e) == e.ev \in {"open", "decode", "close"}

\* What the page sheets did, in order.
SheetLog == SelectSeq(ld.io, IsSheetEvent)

IsOpenEvent(e) == e.ev = "open"

\* The page indices the sheet function was invoked for, in order.
Invocations == [k \in 1..Len(SelectSeq(ld.io, IsOpenEvent)) |->
                    SelectSeq(ld.io, IsOpenEvent)[k].page]

LoadsFont == mode = "load" /\ ld.op \in {"Read", "Load"}

\* C5 as stated: while a font is loaded the sheet function is invoked in
\* ascending page-index order, once for each entry of the page table.
C5_AscendingOrder ==
    LoadsFont =>
        /\ \A a, b \in 1..Len(Invocations) : a < b => Invocations[a] < Invocations[b]
        /\ (ld.pc = "returned" /\ ld.err = Nil) =>
                {Invocations[k] : k \in 1..Len(Invocations)} = DOMAIN ld.desc.Pages

\* C5, amended: the sheet function is invoked at most once for each entry
\* of the page table and for nothing else, and exactly once for each entry
\* when Read succeeds; the order is the one the range over the map yields.
C5_OncePerPage ==
    LoadsFont =>
        /\ \A a, b \in 1..Len(Invocations) : a # b => Invocations[a] # Invocations[b]
        /\ Invocations # <<>> =>
                \A k \in 1..Len(Invocations) : Invocations[k] \in DOMAIN ld.desc.Pages
        /\ (ld.pc = "readReturned" /\ ld.readErr = Nil) =>
                {Invocations[k] : k \in 1..Len(Invocations)} = DOMAIN ld.desc.Pages

\* A font has been loaded whose sheets were opened in descending order.
C5_Witness ==
    /\ LoadsFont /\ ld.pc = "returned" /\ ld.err = Nil /\ ld.f # Nil
    /\ Invocations = <<2, 1>>
    /\ DOMAIN ld.f.PageSheets = {1, 2}

\* Something failed before the descriptor file was closed.
EarlierError ==
    \/ parseControlData(SourceOf(input)).err # Nil
    \/ \E k \in 1..Len(ld.io) : ld.io[k].ev # "closeDescriptor" /\ ~ld.io[k].ok

\* C6: every loading operation returns exactly one of a result and an
\* error: with an error, whatever its cause, the result is nil; and the
\* error of closing the file is returned only when nothing failed before.
C6_ResultOrError ==
    (mode = "load" /\ ld.pc = "returned") =>
        /\ ld.err # Nil => ld.f = Nil
        /\ ld.err = Nil => ld.f # Nil
        /\ ld.err = DescriptorCloseError => ~EarlierError

SheetFailures ==
    {k \in 1..Len(SheetLog) : SheetLog[k].ev \in {"open", "decode"} /\ ~SheetLog[k].ok}

MinOf(S) == CHOOSE k \in S : \A j \in S : k <= j

\* C7: in Read the first sheet that fails to open or to decode aborts the
\* loading: Read returns that error and no font, opens no sheet after it,
\* and has closed every reader it opened; on success the sheet mapping has
\* exactly the keys of the page table.
C7_ReadAbortsOnFirstFailure ==
    (LoadsFont /\ ld.pc = "readReturned") =>
        /\ SheetFailures # {} =>
                LET e == SheetLog[MinOf(SheetFailures)]
                IN  /\ ld.readErr = IF e.ev = "open" THEN OpenError(e.page)
                                     ELSE DecodeError(e.page)
                    /\ ld.readF = Nil
                    /\ \A j \in 1..Len(SheetLog) :
                            j > MinOf(SheetFailures) => SheetLog[j].ev # "open"
        /\ \A k \in 1..Len(SheetLog) :
                (SheetLog[k].ev = "open" /\ SheetLog[k].ok) =>
                    \E j \in 1..Len(SheetLog) :
                        j > k /\ SheetLog[j].ev = "close" /\ SheetLog[j].page = SheetLog[k].page
        /\ ld.readErr # Nil => ld.readF = Nil
        /\ ld.readErr = Nil =>
                /\ ld.readF # Nil
                /\ DOMAIN ld.readF.PageSheets = DOMAIN ld.desc.Pages

\* Read has returned the decode error of the second sheet it opened.
C7_Witness ==
    /\ LoadsFont /\ ld.pc = "readReturned"
    /\ ld.readErr.kind = "decode"
    /\ Len(Invocations) = 2
    /\ ld.readF = Nil

(***************************************************************************)
(* The layout loop (bitmapfont.go 86-165): image.Point and image.Rectangle *)
(* as the loop uses them, the two sinks, and drawText one pass at a time.  *)
(***************************************************************************)
Pt(x, y) == [X |-> x, Y |-> y]

\* Point.Add
Add(a, b) == Pt(a.X + b.X, a.Y + b.Y)

ZR == [Min |-> Pt(0, 0), Max |-> Pt(0, 0)]

\* Rectangle.Empty
Empty(r) == r.Min.X >= r.Max.X \/ r.Min.Y >= r.Max.Y

Min2(a, b) == IF a < b THEN a ELSE b

Max2(a, b) == IF a > b THEN a ELSE b

\* Rectangle.Union
Union(r, s) ==
    IF Empty(r) THEN s
    ELSE IF Empty(s) THEN r
    ELSE [Min |-> Pt(Min2(r.Min.X, s.Min.X), Min2(r.Min.Y, s.Min.Y)),
          Max |-> Pt(Max2(r.Max.X, s.Max.X), Max2(r.Max.Y, s.Max.Y))]

\* Char.Pos and Char.Size
Pos(c) == Pt(c.X, c.Y)

Size(c) == Pt(c.Width, c.Height)

\* The code-points '\n' and '?'.
Newline == 10

QuestionMark == 63

\* The bytes of a code-point in the text, which the index of the range
\* statement counts.
RuneLen(r) == IF r < 128 THEN 1 ELSE IF r < 2048 THEN 2 ELSE IF r < 65536 THEN 3 ELSE 4

\* char as it would be without the fallback to '?'.
charNoFallback(f, r) ==
    IF r \in DOMAIN f.Descriptor.Chars
    THEN [c |-> f.Descriptor.Chars[r], ok |-> TRUE]
    ELSE [c |-> ZeroChar, ok |-> FALSE]

\* BitmapFont.char
char(f, r) ==
    IF r \in DOMAIN f.Descriptor.Chars
    THEN [c |-> f.Descriptor.Chars[r], ok |-> TRUE]
    ELSE IF QuestionMark \in DOMAIN f.Descriptor.Chars
    THEN [c |-> f.Descriptor.Chars[QuestionMark], ok |-> TRUE]
    ELSE [c |-> ZeroChar, ok |-> FALSE]

\* imageDrawer.Draw and boundsMeasurer.Draw.  draw.Draw asks its source for
\* its bounds before anything else: with a nil source the call panics.
Draw(d, r, src, sp) ==
    LET call == [r |-> r, src |-> src, sp |-> sp]
    IN  IF d.sink = "measure"
        THEN [d EXCEPT !.calls = Append(d.calls, call), !.bounds = Union(d.bounds, r)]
        ELSE IF src = Nil
        THEN [d EXCEPT !.calls = Append(d.calls, call), !.pc = "panicked"]
        ELSE [d EXCEPT !.calls = Append(d.calls, call)]

\* The kerning step of the loop (bitmapfont.go 126-132).
kerningAdvance(f, i, prev, r) ==
    LET pair == [First |-> prev, Second |-> r]
    IN  IF i > 0 /\ pair \in DOMAIN f.Descriptor.Kerning
        THEN f.Descriptor.Kerning[pair].Amount
        ELSE 0

\* newlineStep as it would be if a newline also forgot the previous
\* code-point.
newlineStepResetsPrev(f, d) ==
    [d EXCEPT !.cursor = Pt(d.pos.X, d.cursor.Y + f.Descriptor.Common.LineHeight),
              !.prev = 0]

\* The newline branch of the loop (bitmapfont.go 105-109).
newlineStep(f, d) ==
    [d EXCEPT !.cursor = Pt(d.pos.X, d.cursor.Y + f.Descriptor.Common.LineHeight)]

\* The glyph branch of the loop (bitmapfont.go 114-133).
glyphStep(f, d, r, ch) ==
    LET sheet == MapGet(f.PageSheets, ch.Page, Nil)
        min == Pt(d.cursor.X + ch.XOffset,
                  d.cursor.Y - f.Descriptor.Common.Base + ch.YOffset)
        dr == [Min |-> min, Max |-> Add(min, Size(ch))]
        d1 == Draw(d, dr, sheet, Pos(ch))
    IN  IF d1.pc = "panicked" THEN d1
        ELSE [d1 EXCEPT !.cursor = Pt(d.cursor.X + ch.XAdvance
                                        + kerningAdvance(f, d.i, d.prev, r),
                                      d.cursor.Y),
                        !.prev = r]

\* One pass of the loop of drawText for the code-point at idx, which starts
\* at byte i of the text.
drawStep(f, d) ==
    LET r == d.text[d.idx]
        d1 == IF r = Newline THEN newlineStep(f, d)
              ELSE IF ~char(f, r).ok THEN d
              ELSE glyphStep(f, d, r, char(f, r).c)
    IN  IF d1.pc = "panicked" THEN d1
        ELSE [d1 EXCEPT !.idx = d.idx + 1, !.i = d.i + RuneLen(r)]

\* The state of drawText on entry (bitmapfont.go 102-103), with the sink
\* DrawText or MeasureText hands it.
drawBegin(sink, pos, text) ==
    [sink |-> sink, pos |-> pos, text |-> text, idx |-> 1, i |-> 0,
     cursor |-> pos, prev |-> 0, calls |-> <<>>, bounds |-> ZR,
     pc |-> "loop", result |-> Nil]

\* The return of DrawText and MeasureText.
drawEnd(d) ==
    [d EXCEPT !.pc = "done", !.result = IF d.sink = "measure" THEN d.bounds ELSE Nil]

RECURSIVE drawText(_, _)
\* drawText run to its end from the state d.
drawText(f, d) ==
    IF d.pc = "panicked" THEN d
    ELSE IF d.idx > Len(d.text) THEN drawEnd(d)
    ELSE The({drawText(f, x) : x \in {drawStep(f, d)}})

\* MeasureText
MeasureText(f, text) == drawText(f, drawBegin("measure", Pt(0, 0), text)).result

(***************************************************************************)
(* Fonts as Read builds them from a descriptor document: glyphs 'A' and    *)
(* 'V', a kerning entry for the pair, and one page.                        *)
(***************************************************************************)
GlyphA(pg) ==
    [ID |-> 65, X |-> 1, Y |-> 2, Width |-> 9, Height |-> 12, XOffset |-> 0,
     YOffset |-> 3, XAdvance |-> 10, Page |-> pg, Channel |-> 15]

GlyphV(pg, xoff) ==
    [ID |-> 86, X |-> 11, Y |-> 2, Width |-> 8, Height |-> 12, XOffset |-> xoff,
     YOffset |-> 4, XAdvance |-> 8, Page |-> pg, Channel |-> 15]

GlyphQ(pg) ==
    [ID |-> QuestionMark, X |-> 20, Y |-> 2, Width |-> 5, Height |-> 11, XOffset |-> 1,
     YOffset |-> 5, XAdvance |-> 6, Page |-> pg, Channel |-> 15]

FontLines(hasQ, pg, xoff) ==
    <<CommonLine([ZeroCommon EXCEPT !.LineHeight = 20, !.Base = 16]),
      PageLine([ID |-> pg, File |-> <<"a">>]),
      CharLine(GlyphA(pg)), CharLine(GlyphV(pg, xoff))>>
    \o (IF hasQ THEN <<CharLine(GlyphQ(pg))>> ELSE <<>>)
    \o <<KerningLine([First |-> 65, Second |-> 86], [Amount |-> 0 - 2])>>

\* The font Read returns for a descriptor when every sheet opens and
\* decodes (bitmapfont.go 44-55).
FontOf(desc) ==
    [Descriptor |-> desc,
     PageSheets |-> [i \in DOMAIN desc.Pages |-> Image(desc.Pages[i].File)]]

\* The largest x offset of the glyph 'V' among the fonts.
MaxXOffset == 1

Fonts ==
    {FontOf(parseControlData(Layout(FontLines(hasQ, pg, xoff), 1, TRUE)).ctl) :
        hasQ \in BOOLEAN, pg \in 0..MaxPageId, xoff \in 0..MaxXOffset}

\* The code-points of the texts: 'A', 'V', 'Z' (which has no glyph) and
\* the newline.
Runes == {65, 86, 90, Newline}

\* The longest text.
MaxTextLen == 3

Texts == UNION {[1..n -> Runes] : n \in 0..MaxTextLen}

Starts == {Pt(0, 0), Pt(3, 5)}

InitDraw ==
    /\ mode = "draw"
    /\ ParseIdle
    /\ LoadIdle
    /\ font \in Fonts
    /\ \E sink \in {"draw", "measure"}, pos \in Starts, text \in Texts :
          /\ sink = "measure" => pos = Pt(0, 0)
          /\ input = [kind |-> "text", sink |-> sink, pos |-> pos, text |-> text]
          /\ dt = drawBegin(sink, pos, text)

\* bitmapfont.go 104-134
DrawStep ==
    /\ mode = "draw" /\ dt.pc = "loop" /\ dt.idx <= Len(dt.text)
    /\ dt' = drawStep(font, dt)
    /\ UNCHANGED <<mode, input, parseVars, ld, font>>

\* bitmapfont.go 88 and 98
DrawReturn ==
    /\ mode = "draw" /\ dt.pc = "loop" /\ dt.idx > Len(dt.text)
    /\ dt' = drawEnd(dt)
    /\ UNCHANGED <<mode, input, parseVars, ld, font>>

NextDraw == DrawStep \/ DrawReturn

SpecDraw == InitDraw /\ [][NextDraw]_vars

(***************************************************************************)
(* Properties of the layout loop.                                          *)
(***************************************************************************)
FontChars == font.Descriptor.Chars

FontKerning == font.Descriptor.Kerning

PairAV == [First |-> 65, Second |-> 86]

\* C1: laying out "AV" with 'A' (xadvance 10), 'V' and a kerning entry (A,V)
\* of -2 gives V a destination rectangle whose left edge is the start x plus
\* 10 + (-2) + V.xoffset: the kerning of the pair (previous, r) is part of
\* the x position at which r is placed.
C1_KerningInPlacement ==
    (mode = "draw" /\ dt.text = <<65, 86>> /\ Len(dt.calls) = 2 /\ PairAV \in DOMAIN FontKerning) =>
        dt.calls[2].r.Min.X =
            dt.pos.X + FontChars[65].XAdvance + FontKerning[PairAV].Amount + FontChars[86].XOffset

\* C4: DrawText and MeasureText never crash: no sink is handed an absent
\* sheet, whatever the text and the loaded font.
C4_NoAbsentSheet ==
    mode = "draw" =>
        /\ dt.pc # "panicked"
        /\ \A k \in 1..Len(dt.calls) : dt.sink = "draw" => dt.calls[k].src # Nil

HasGlyph(r) == r \in DOMAIN FontChars \/ QuestionMark \in DOMAIN FontChars

\* The pass of the loop now taken reads a code-point, not a newline, that
\* has no glyph and no fallback.
SkipsCodePoint ==
    /\ DrawStep
    /\ dt.text[dt.idx] # Newline
    /\ ~HasGlyph(dt.text[dt.idx])

NewlinesBefore(text, n) == Cardinality({j \in 1..n : text[j] = Newline})

\* The code-points before index n that the loop placed a glyph for.
PlacedBefore(text, n) == {j \in 1..(n - 1) : text[j] # Newline /\ HasGlyph(text[j])}

\* The code-point the loop placed last before index n, 0 when there is none.
LastPlaced(text, n) ==
    IF PlacedBefore(text, n) = {} THEN 0
    ELSE text[CHOOSE j \in PlacedBefore(text, n) : \A k \in PlacedBefore(text, n) : k <= j]

NewlineStep == DrawStep /\ dt.text[dt.idx] = Newline

\* The pass now taken places the first code-point of a line: a glyph right
\* after a newline, on a font whose sheet is there.
FirstGlyphOfLine ==
    /\ DrawStep
    /\ dt.idx > 1
    /\ dt.text[dt.idx - 1] = Newline
    /\ dt.text[dt.idx] # Newline
    /\ HasGlyph(dt.text[dt.idx])
    /\ dt'.pc # "panicked"

\* C9: a newline changes the cursor only: x returns to the start x and y
\* grows by the line height, so the first glyph of the next line is placed
\* at the start x plus its x offset, one line height lower for each newline;
\* the newline calls no sink and keeps the previous code-point, so the
\* kerning looked up for that glyph pairs it with the last glyph before the
\* newline.
C9_NewlineMovesCursorOnly ==
    /\ [][NewlineStep =>
            /\ dt'.cursor = Pt(dt.pos.X, dt.cursor.Y + font.Descriptor.Common.LineHeight)
            /\ dt'.calls = dt.calls
            /\ dt'.bounds = dt.bounds
            /\ dt'.prev = dt.prev]_vars
    /\ [][FirstGlyphOfLine =>
            LET r == dt.text[dt.idx]
                ch == char(font, r).c
                pair == [First |-> LastPlaced(dt.text, dt.idx), Second |-> r]
            IN  /\ dt'.calls[Len(dt'.calls)].r.Min =
                        Pt(dt.pos.X + ch.XOffset,
                           dt.pos.Y
                           + NewlinesBefore(dt.text, dt.idx) * font.Descriptor.Common.LineHeight
                           - font.Descriptor.Common.Base + ch.YOffset)
                /\ dt'.cursor.X = dt.pos.X + ch.XAdvance
                        + (IF pair \in DOMAIN FontKerning THEN FontKerning[pair].Amount ELSE 0)]_vars

\* "A\nV" has been laid out: V stands at the start x on the second line, and
\* the kerning of (A,V) has moved the cursor.
C9_Witness ==
    /\ mode = "draw" /\ dt.pc = "done"
    /\ dt.text = <<65, Newline, 86>>
    /\ Len(dt.calls) = 2
    /\ dt.calls[2].r.Min.X = dt.pos.X + FontChars[86].XOffset
    /\ dt.calls[2].r.Min.Y = dt.pos.Y + font.Descriptor.Common.LineHeight
                              - font.Descriptor.Common.Base + FontChars[86].YOffset
    /\ font.Descriptor.Common.LineHeight > 0
    /\ dt.cursor.X = dt.pos.X + FontChars[86].XAdvance + FontKerning[PairAV].Amount

RECURSIVE UnionOf(_, _)
\* The union of the destination rectangles of the calls, folded from acc in
\* the order of the calls as boundsMeasurer.Draw folds them.
UnionOf(calls, acc) ==
    IF calls = <<>> THEN acc
    ELSE The({UnionOf(Tail(calls), x) : x \in {Union(acc, Head(calls).r)}})

\* The destination rectangles of the calls, in order.
Rects(calls) == [k \in 1..Len(calls) |-> calls[k].r]

\* DrawText(dst, (0,0), text) has come to its end, by returning or by the
\* panic of draw.Draw.
DrawTextEnded ==
    /\ mode = "draw" /\ dt.sink = "draw" /\ dt.pos = Pt(0, 0)
    /\ dt.pc \in {"done", "panicked"}

\* The run of MeasureText on the text of the run in dt.
Measured == drawText(font, drawBegin("measure", Pt(0, 0), dt.text))

\* C11: for every font and every text, MeasureText(text) is the union,
\* from the zero rectangle and skipping empty rectangles, of exactly the
\* destination rectangles DrawText(dst, (0,0), text) hands to draw.Draw, in
\* the same number and order; and neither operation changes the Descriptor
\* or the sheet mapping.
C11_MeasureEqualsDrawn ==
    /\ [](DrawTextEnded =>
            /\ Len(Measured.calls) = Len(dt.calls)
            /\ Rects(Measured.calls) = Rects(dt.calls)
            /\ Measured.result = UnionOf(dt.calls, ZR))
    /\ [][mode = "draw" => font' = font]_vars

\* The same where DrawText returns: on a font whose glyphs find their sheet
\* the two operations hand their sinks the same rectangles.
MeasureEqualsDrawnOnReturn ==
    /\ [](DrawTextEnded /\ dt.pc = "done" =>
            /\ Len(Measured.calls) = Len(dt.calls)
            /\ Rects(Measured.calls) = Rects(dt.calls)
            /\ Measured.result = UnionOf(dt.calls, ZR))
    /\ [](mode = "draw" /\ dt.sink = "measure" /\ dt.pc = "done" =>
            dt.result = UnionOf(dt.calls, ZR))
    /\ [][mode = "draw" => font' = font]_vars

\* "AV" has been drawn at (0,0) to its return with two blits.
DrawnTwoGlyphs ==
    /\ DrawTextEnded /\ dt.pc = "done"
    /\ dt.text = <<65, 86>> /\ Len(dt.calls) = 2
    /\ ~Empty(Measured.result)

(***************************************************************************)
(* Termination of the tag parser.                                          *)
(***************************************************************************)
\* What the parser q still has to read: the tokens the scanner has not
\* delivered, a quote character it left unread, and the token at hand.
Remaining(q) ==
    2 * (Len(q.scanner.src) + 1 - q.scanner.off)
    + (IF q.scanner.pendq THEN 1 ELSE 0)
    + (IF q.tok = "EOF" THEN 0 ELSE 1)

\* The tokens of the document, the end of input counted as one.
TokenCount == Len(p.scanner.src) + 1

Parsing == mode = "parse" /\ pc \in {"tag", "attr", "done"}

\* Every pass of the two loops reads on, the end of input is absorbing,
\* and the parser returns.
ParserProgress ==
    /\ [][AttrPass => Remaining(p') < Remaining(p)]_vars
    /\ [][TagBegin => Remaining(p') < Remaining(p)]_vars
    /\ [][TagEnd => Remaining(p') <= Remaining(p) /\ Len(tags') = Len(tags) + 1]_vars
    /\ [](Parsing /\ p.tok = "EOF" => next(p) = p)
    /\ [][Parsing /\ p.tok = "EOF" => p'.tok = "EOF"]_vars
    /\ (mode = "parse" => <>(pc = "done"))

=============================================================================
